---- MODULE Spec2Model ----
(***************************************************************************)
(* scripts/changelog_head.py: prints the body of the first entry of        *)
(* CHANGELOG.md.  The script is one loop over the lines of the file; the   *)
(* model keeps the file content, the loop position, the flag               *)
(* found_first_header, what was printed so far and the state of the file   *)
(* handle.  Lines are sequences of one-character strings so that strip()   *)
(* and the two regular expressions are computed, not assumed.              *)
(***************************************************************************)
EXTENDS Integers, Sequences, FiniteSets, TLC

\* ------------------------------------------------------------------ bounds
\* Largest number of lines in CHANGELOG.md that is explored.
MaxLen == 3

\* ------------------------------------------------------- characters, lines
\* The characters str.strip() removes when called without arguments; VT
\* stands for the single vertical-tab character.
VT == "\\x0b"
Whitespace == {" ", "\t", "\n", "\r", "\f", VT}

\* The literal the header regex starts with: "Changes in [".
HeaderLiteral == <<"C","h","a","n","g","e","s"," ","i","n"," ","[">>

\* Raw lines as file iteration yields them (line terminator included).
BlankLine     == <<" ", "\t", "\n">>
SeparatorLine == <<" ", "=", "=", " ", "\n">>
HeaderLine    == HeaderLiteral \o <<"1", "]", "\n">>
HeaderSuffix  == <<" ">> \o HeaderLiteral \o <<"2", "]", "(", "u", ")", "\r", "\n">>
HeaderNoClose == HeaderLiteral \o <<"3", "\n">>
HeaderInside  == <<"x">> \o HeaderLiteral \o <<"4", "]", "\n">>
BodyLine      == <<" ", "a", " ", "b", "\t", "\n">>
BodyEquals    == <<"=", "a", "\n">>

Lines == { BlankLine, SeparatorLine, HeaderLine, HeaderSuffix, HeaderNoClose,
           HeaderInside, BodyLine, BodyEquals }

RECURSIVE SeqsUpTo(_, _)
SeqsUpTo(S, n) ==
  IF n = 0 THEN { <<>> }
  ELSE LET shorter == SeqsUpTo(S, n - 1)
       IN  shorter \cup { Append(s, x) : s \in shorter, x \in S }

\* The contents CHANGELOG.md may have.
Inputs == SeqsUpTo(Lines, MaxLen)

\* --------------------------------------------------------- line.strip()
RECURSIVE LStrip(_)
LStrip(s) ==
  IF s = <<>> THEN s
  ELSE IF Head(s) \in Whitespace THEN LStrip(Tail(s)) ELSE s

RECURSIVE RStrip(_)
RStrip(s) ==
  IF s = <<>> THEN s
  ELSE IF s[Len(s)] \in Whitespace THEN RStrip(SubSeq(s, 1, Len(s) - 1)) ELSE s

Strip(s) == RStrip(LStrip(s))

\* ------------------------------------- re.match(r"^Changes in \[.*\]", s)
\* The match is anchored at the start; ".*" is any run of characters other
\* than a newline; a "]" has to follow it.  Nothing is required after "]".
MatchHeader_PrefixOnly(s) ==
  /\ Len(s) >= Len(HeaderLiteral)
  /\ SubSeq(s, 1, Len(HeaderLiteral)) = HeaderLiteral

MatchHeader(s) ==
  /\ Len(s) > Len(HeaderLiteral)
  /\ SubSeq(s, 1, Len(HeaderLiteral)) = HeaderLiteral
  /\ \E j \in (Len(HeaderLiteral) + 1)..Len(s) :
        /\ s[j] = "]"
        /\ \A k \in (Len(HeaderLiteral) + 1)..(j - 1) : s[k] # "\n"

\* ------------------------------------------------- re.match(r"^=+$", s)
\* One or more "=" from the start, then the end of the string ("$" also
\* matches just before a newline that ends the string).
MatchSeparator(s) ==
  \E n \in 1..Len(s) :
     /\ \A k \in 1..n : s[k] = "="
     /\ \/ n = Len(s)
        \/ n = Len(s) - 1 /\ s[Len(s)] = "\n"

\* ------------------------------------------------------ the loop's body
\* "if found_first_header: break" inside the header branch.
Breaks_Never(found, s) == FALSE

Breaks(found, s) == MatchHeader(s) /\ found

\* "found_first_header = True" in the header branch; untouched elsewhere.
FlagAfter_AnyLine(found, s) == TRUE

FlagAfter(found, s) == IF MatchHeader(s) THEN TRUE ELSE found

\* The elif branch: "print line" for a line that is not a header, does not
\* match the separator regex and is not empty.  The flag is not consulted.
Emitted_NoSeparatorTest(found, s) ==
  IF ~MatchHeader(s) /\ Len(s) > 0 THEN << s >> ELSE << >>

Emitted(found, s) ==
  IF ~MatchHeader(s) /\ ~MatchSeparator(s) /\ Len(s) > 0 THEN << s >> ELSE << >>

\* ------------------------------------------------------------------ state
VARIABLES
  input,               \* the lines of CHANGELOG.md
  faults,              \* which access raises IOError: 0 the open, n the n-th read
  pc,                  \* "start", "loop", "done" (normal end), "failed" (IOError)
  pos,                 \* number of lines the loop has taken from the file
  found_first_header,  \* the script's flag
  out,                 \* lines printed to standard output, in order
  srcOpen              \* the file object of open("CHANGELOG.md") is open

vars == << input, faults, pc, pos, found_first_header, out, srcOpen >>

Ended == pc \in {"done", "failed"}

Init ==
  /\ input \in Inputs
  /\ faults \in { {} } \cup { {n} : n \in 0..(Len(input) + 1) }
  /\ pc = "start"
  /\ pos = 0
  /\ found_first_header = FALSE
  /\ out = << >>
  /\ srcOpen = FALSE

\* open("CHANGELOG.md") succeeds.
OpenOk ==
  /\ pc = "start"
  /\ 0 \notin faults
  /\ pc' = "loop"
  /\ srcOpen' = TRUE
  /\ UNCHANGED << input, faults, pos, found_first_header, out >>

\* open("CHANGELOG.md") raises IOError; nothing catches it.
OpenFail ==
  /\ pc = "start"
  /\ 0 \in faults
  /\ pc' = "failed"
  /\ UNCHANGED << input, faults, pos, found_first_header, out, srcOpen >>

\* The script has no close() and no with-block.  When the loop is left the
\* file object loses its last reference: a reference-counting runtime closes
\* it there and then, any other runtime at some later collection or at exit.
LeaveLoop ==
  \E released \in BOOLEAN : srcOpen' = (srcOpen /\ ~released)

\* One iteration: take the next line, strip it, branch.
LoopBody ==
  /\ pc = "loop"
  /\ pos < Len(input)
  /\ (pos + 1) \notin faults
  /\ LET line == Strip(input[pos + 1])
     IN  /\ pos' = pos + 1
         /\ IF Breaks(found_first_header, line)
            THEN /\ pc' = "done"
                 /\ LeaveLoop
                 /\ UNCHANGED << found_first_header, out >>
            ELSE /\ pc' = "loop"
                 /\ found_first_header' = FlagAfter(found_first_header, line)
                 /\ out' = out \o Emitted(found_first_header, line)
                 /\ UNCHANGED srcOpen
  /\ UNCHANGED << input, faults >>

\* Reading from the file raises IOError in the middle of the loop.
ReadFail_Swallowed ==
  /\ pc = "loop"
  /\ (pos + 1) \in faults
  /\ pc' = "done"
  /\ LeaveLoop
  /\ UNCHANGED << input, faults, pos, found_first_header, out >>

ReadFail ==
  /\ pc = "loop"
  /\ (pos + 1) \in faults
  /\ pc' = "failed"
  /\ LeaveLoop
  /\ UNCHANGED << input, faults, pos, found_first_header, out >>

\* The file has no more lines: the for loop ends and so does the script.
Exhausted_Raises ==
  /\ pc = "loop"
  /\ pos = Len(input)
  /\ (pos + 1) \notin faults
  /\ pc' = IF found_first_header THEN "failed" ELSE "done"
  /\ LeaveLoop
  /\ UNCHANGED << input, faults, pos, found_first_header, out >>

Exhausted ==
  /\ pc = "loop"
  /\ pos = Len(input)
  /\ (pos + 1) \notin faults
  /\ pc' = "done"
  /\ LeaveLoop
  /\ UNCHANGED << input, faults, pos, found_first_header, out >>

\* The runtime finalises the unreferenced file object (collection or exit).
Reclaim ==
  /\ Ended
  /\ srcOpen
  /\ srcOpen' = FALSE
  /\ UNCHANGED << input, faults, pc, pos, found_first_header, out >>

Next == OpenOk \/ OpenFail \/ LoopBody \/ ReadFail \/ Exhausted \/ Reclaim

Spec == Init /\ [][Next]_vars

\* The interpreter runs the script without pausing for ever.
FairSpec == Spec /\ WF_vars(Next)

\* ------------------------------------------- vocabulary of the properties
\* A line made of "=" characters only, at least one.
AllEquals(s) == Len(s) >= 1 /\ \A k \in 1..Len(s) : s[k] = "="

\* The stripped text starts with the literal "Changes in [".
HasHeaderPrefix(s) ==
  /\ Len(s) >= Len(HeaderLiteral)
  /\ \A k \in 1..Len(HeaderLiteral) : s[k] = HeaderLiteral[k]

\* ... and a "]" comes somewhere after the literal.
PrefixThenClose(s) ==
  HasHeaderPrefix(s) /\ \E j \in 1..Len(s) : j > Len(HeaderLiteral) /\ s[j] = "]"

\* A body line: not empty, not a header, not a separator (after stripping).
IsBodyLine(s) == Len(s) > 0 /\ ~MatchHeader(s) /\ ~AllEquals(s)

\* Positions of the header lines of a file, and the smallest of a set.
HeaderAt(inp) == { i \in 1..Len(inp) : MatchHeader(Strip(inp[i])) }
Least(S) == CHOOSE i \in S : \A j \in S : i <= j

\* The stripped body lines at positions lo..hi, in order.
RECURSIVE BodyLines(_, _, _)
BodyLines(inp, lo, hi) ==
  IF lo > hi THEN << >>
  ELSE (IF IsBodyLine(Strip(inp[lo])) THEN << Strip(inp[lo]) >> ELSE << >>)
       \o BodyLines(inp, lo + 1, hi)

\* The body of the first entry: what lies strictly between the first header
\* and the second one, or the end of the file when there is no second one.
FirstEntryBody(inp) ==
  LET hs == HeaderAt(inp)
  IN  IF hs = {} THEN << >>
      ELSE LET h1   == Least(hs)
               rest == hs \ {h1}
               h2   == IF rest = {} THEN Len(inp) + 1 ELSE Least(rest)
           IN  BodyLines(inp, h1 + 1, h2 - 1)

\* The loop takes a line in this step.
TakesLine == pc = "loop" /\ pos' = pos + 1

\* The access about to be made is the one that raises IOError.
FailingAccess ==
  \/ pc = "start" /\ 0 \in faults
  \/ pc = "loop" /\ (pos + 1) \in faults

\* ---------------------------------------------------------------- claims

\* C1: when the scan has ended normally, the printed output is exactly the
\* body lines strictly between the first header and the second header (or
\* the end of the input), stripped, in their original order.
C1_OutputIsFirstEntryBody == pc = "done" => out = FirstEntryBody(input)

\* C2: no line read while found_first_header was still false has been
\* emitted: as long as the flag is false nothing has been printed.
C2_PreambleNeverEmitted == ~found_first_header => out = << >>

\* C3: for an input without any header line the output is empty when the
\* scan finishes, and the scan finishes normally when no access fails.
C3_NoHeaderNoOutput ==
  (Ended /\ HeaderAt(input) = {}) => (out = << >> /\ (faults = {} => pc = "done"))

\* C4: the output never contains a separator line, a blank line or a header
\* line, wherever such a line occurs in the input and whatever the flag is.
C4_NoSeparatorBlankHeaderInOutput ==
  \A i \in 1..Len(out) :
     /\ ~AllEquals(out[i])
     /\ Len(out[i]) > 0
     /\ ~PrefixThenClose(out[i])
     /\ out[i] = Strip(out[i])

\* C4 witness: inside the first entry a separator or a blank line has been
\* read and skipped, and a body line has been printed.
C4_Witness ==
  /\ found_first_header
  /\ 1 \in HeaderAt(input)
  /\ Len(out) > 0
  /\ \E i \in 2..pos : AllEquals(Strip(input[i])) \/ Strip(input[i]) = << >>

\* C5: a header read while found_first_header is true ends the scan in that
\* very step without printing; after the end no line is taken and nothing
\* is printed any more.
C5_SecondHeaderEndsScan ==
  /\ [][ (TakesLine /\ found_first_header /\ MatchHeader(Strip(input[pos + 1])))
           => (pc' = "done" /\ out' = out) ]_vars
  /\ [][ pc = "done" => (pc' = "done" /\ pos' = pos /\ out' = out) ]_vars

\* C5 witness: the scan ended at a second header with a line left unread.
C5_Witness ==
  /\ pc = "done"
  /\ pos < Len(input)
  /\ found_first_header
  /\ MatchHeader(Strip(input[pos]))

\* C6 as stated: every line whose stripped text begins with "Changes in ["
\* is treated as a header (sets the flag or ends the scan, is not emitted),
\* also when no "]" follows.
C6_PrefixOnlyHeader ==
  [][ (TakesLine /\ HasHeaderPrefix(Strip(input[pos + 1])))
        => /\ out' = out
           /\ IF found_first_header THEN pc' = "done" ELSE found_first_header' ]_vars

\* C6 amended: a line is treated as a header exactly when its stripped text
\* begins with "Changes in [" and a "]" follows somewhere later, whatever
\* comes after that "]"; a line with the prefix but no later "]" is handled
\* as an ordinary line: it is printed and changes neither flag nor scan.
C6_HeaderNeedsClosingBracket ==
  [][ TakesLine =>
        LET s == Strip(input[pos + 1])
        IN  /\ PrefixThenClose(s) =>
                 /\ out' = out
                 /\ IF found_first_header THEN pc' = "done"
                                          ELSE found_first_header' /\ pc' = "loop"
            /\ (HasHeaderPrefix(s) /\ ~PrefixThenClose(s)) =>
                 /\ out' = Append(out, s)
                 /\ found_first_header' = found_first_header
                 /\ pc' = "loop" ]_vars

\* C6 witness: a header with text after its "]" and a line with the prefix
\* but without "]" have both been read.
C6_Witness ==
  /\ \E i \in 1..pos : input[i] = HeaderSuffix
  /\ \E i \in 1..pos : input[i] = HeaderNoClose
  /\ found_first_header

\* C7: whenever the scan has ended (second header, end of input, failure)
\* the input source is no longer open.
C7_SourceReleasedWhenEnded == Ended => ~srcOpen

\* C8 as stated: when the open or a read fails, nothing has been printed
\* and the process ends in the failure state.
C8_FailureMeansNoOutput ==
  [][ FailingAccess => (pc' = "failed" /\ out' = << >>) ]_vars

\* C8 amended: when the open fails nothing has been printed; when a read
\* fails the lines printed before it stay printed and nothing is added; in
\* both cases the process ends in the failure state, never in normal
\* completion, and stays there.
C8_FailureEndsInFailedState ==
  /\ [][ FailingAccess => (pc' = "failed" /\ out' = out) ]_vars
  /\ [][ pc = "failed" => (pc' = "failed" /\ out' = out) ]_vars
  /\ []((pc = "failed" /\ 0 \in faults) => out = << >>)

\* C8 witness: a read failed after lines had been printed.
C8_Witness ==
  /\ pc = "failed"
  /\ 0 \notin faults
  /\ 1 \in HeaderAt(input)
  /\ Len(out) > 0

\* C9: found_first_header starts false, goes from false to true only in the
\* step that reads a header (and always in such a step), and once true it
\* is never false again.
C9_FlagSetOnceByFirstHeader ==
  /\ ~found_first_header
  /\ [][ found_first_header => found_first_header' ]_vars
  /\ [][ (~found_first_header /\ found_first_header')
           => (TakesLine /\ MatchHeader(Strip(input[pos + 1]))) ]_vars
  /\ [][ (~found_first_header /\ TakesLine /\ MatchHeader(Strip(input[pos + 1])))
           => found_first_header' ]_vars

\* C9 witness: the flag is true and lines have been read after the header
\* that set it, the first of them not a header.
C9_Witness ==
  /\ found_first_header
  /\ pc = "loop"
  /\ \E i \in 1..pos : /\ MatchHeader(Strip(input[i]))
                       /\ i + 1 < pos
                       /\ ~MatchHeader(Strip(input[i + 1]))

\* C10: the scan is one forward pass (the position only moves by one line
\* at a time and never beyond the input); it ends normally only at a second
\* header or at the end of the input; and when no access fails it does end
\* normally, with or without a second header.
C10_ScanEndsNormally ==
  /\ [][ pos' = pos \/ (pos' = pos + 1 /\ pos' <= Len(input)) ]_vars
  /\ [](pc = "done" =>
          \/ pos = Len(input)
          \/ /\ pos \in HeaderAt(input)
             /\ \E h \in HeaderAt(input) : h < pos)
  /\ [](faults = {} => <>(pc = "done"))

\* C10 witness: a fault-free scan of an input with exactly one header and a
\* body after it has ended normally at the end of the input.
C10_Witness ==
  /\ pc = "done"
  /\ faults = {}
  /\ HeaderAt(input) = {1}
  /\ pos = Len(input)
  /\ Len(out) > 0
  /\ found_first_header

====
